---- MODULE Spec2Model ----
(***************************************************************************)
(* Model of the ECG denoising pipeline's interval algebra                  *)
(* (ecg_pipeline/index_map.py), its IndexMap (kept spans, projections,     *)
(* compose) and the stage orchestration of ECGDenoisingPipeline.run        *)
(* (ecg_pipeline/pipeline.py, ecg_pipeline/steps.py).                      *)
(*                                                                         *)
(* An interval is a pair <<start, end>>; a kept span is a 4-tuple          *)
(* <<in_start, in_end, out_start, out_end>>; a Python list is a sequence.  *)
(* Python indices are 0-based and are kept 0-based here.                   *)
(***************************************************************************)
EXTENDS Integers, Sequences, FiniteSets, TLC

(***************************************************************************)
(* Bounds of the model.                                                    *)
(***************************************************************************)
\* largest bound / input length given to the interval functions and maps
MaxLen == 3
\* most intervals in one caller-supplied interval list
MaxIv == 2
\* longest signal given to run
MaxN == 4
\* largest merge_gap given to merge_intervals
MaxGap == 2
\* largest min_len given to detect_outliers
MaxMinLen == 3

\* the default `length=None` of normalize_intervals
None == -1

Max(a, b) == IF a >= b THEN a ELSE b
Min(a, b) == IF a <= b THEN a ELSE b

\* the indices an interval list covers (the meaning of an interval set)
Covered(ivs) == UNION { p[1]..p[2] : p \in { ivs[k] : k \in DOMAIN ivs } }

\* the same for caller-supplied pairs, which may be reversed
CoveredRaw(ivs) ==
    UNION { Min(p[1], p[2])..Max(p[1], p[2]) : p \in { ivs[k] : k \in DOMAIN ivs } }

(***************************************************************************)
(* index_map.py: interval algebra                                          *)
(***************************************************************************)
\* s, e = a, b; if s > e: s, e = e, s
SwapPair(p) == IF p[1] > p[2] THEN <<p[2], p[1]>> ELSE p

\* list.sort(key=lambda x: x[0]) is stable: x goes after every element whose
\* start is <= its own
RECURSIVE InsertByStart(_, _)
InsertByStart(x, sorted) ==
    IF sorted = <<>> THEN <<x>>
    ELSE IF Head(sorted)[1] <= x[1]
         THEN <<Head(sorted)>> \o InsertByStart(x, Tail(sorted))
         ELSE <<x>> \o sorted

RECURSIVE SortByStart(_)
SortByStart(xs) ==
    IF xs = <<>> THEN <<>>
    ELSE InsertByStart(xs[Len(xs)], SortByStart(SubSeq(xs, 1, Len(xs) - 1)))

\* xs = [(max(0, s), min(length-1, e)) for (s, e) in xs if s < length and e >= 0]
ClampToLength(xs, length) ==
    LET inside(p) == p[1] < length /\ p[2] >= 0
        sel == SelectSeq(xs, inside)
    IN  [k \in DOMAIN sel |-> <<Max(0, sel[k][1]), Min(length - 1, sel[k][2])>>]

\* the merge loop shared in shape by normalize_intervals (gap = 0) and
\* merge_intervals (gap = merge_gap): merge when s <= ce + gap + 1
RECURSIVE MergeLoopNoTouch(_, _, _, _, _)
MergeLoopNoTouch(rest, cs, ce, merged, gap) ==
    IF rest = <<>> THEN Append(merged, <<cs, ce>>)
    ELSE LET s == Head(rest)[1]
             e == Head(rest)[2]
         IN  IF s <= ce + gap
             THEN MergeLoopNoTouch(Tail(rest), cs, Max(ce, e), merged, gap)
             ELSE MergeLoopNoTouch(Tail(rest), s, e, Append(merged, <<cs, ce>>), gap)

RECURSIVE MergeLoop(_, _, _, _, _)
MergeLoop(rest, cs, ce, merged, gap) ==
    IF rest = <<>> THEN Append(merged, <<cs, ce>>)
    ELSE LET s == Head(rest)[1]
             e == Head(rest)[2]
         IN  IF s <= ce + gap + 1
             THEN MergeLoop(Tail(rest), cs, Max(ce, e), merged, gap)
             ELSE MergeLoop(Tail(rest), s, e, Append(merged, <<cs, ce>>), gap)

normalize_intervals(intervals, length) ==
    IF intervals = <<>> THEN <<>>
    ELSE LET swapped == [k \in DOMAIN intervals |-> SwapPair(intervals[k])]
             sorted == SortByStart(swapped)
             xs == IF length # None THEN ClampToLength(sorted, length) ELSE sorted
         IN  IF xs = <<>> THEN <<>>
             ELSE MergeLoop(Tail(xs), xs[1][1], xs[1][2], <<>>, 0)

merge_intervals(intervals, merge_gap) ==
    IF intervals = <<>> THEN <<>>
    ELSE LET xs == SortByStart(intervals)
         IN  MergeLoop(Tail(xs), xs[1][1], xs[1][2], <<>>, merge_gap)

RECURSIVE InvertLoop(_, _, _, _)
InvertLoop(rest, cur, kept, length) ==
    IF rest = <<>>
    THEN IF cur < length THEN Append(kept, <<cur, length - 1>>) ELSE kept
    ELSE LET s == Head(rest)[1]
             e == Head(rest)[2]
         IN  InvertLoop(Tail(rest), e + 1,
                        IF cur < s THEN Append(kept, <<cur, s - 1>>) ELSE kept,
                        length)

invert_to_kept(removed, length) ==
    LET norm == normalize_intervals(removed, length)
    IN  IF norm = <<>> THEN << <<0, length - 1>> >>
        ELSE InvertLoop(norm, 0, <<>>, length)

(***************************************************************************)
(* index_map.py: IndexMap.  A map is its `kept` list.                      *)
(***************************************************************************)
RECURSIVE FromKeptLoop(_, _, _)
FromKeptLoop(rest, out_pos, kept_out) ==
    IF rest = <<>> THEN kept_out
    ELSE LET s == Head(rest)[1]
             e == Head(rest)[2]
             L == e - s + 1
         IN  FromKeptLoop(Tail(rest), out_pos + L,
                          Append(kept_out, <<s, e, out_pos, out_pos + L - 1>>))

from_kept_ranges(kept_in) == FromKeptLoop(kept_in, 0, <<>>)

from_removed_ranges(removed_in, in_len) ==
    from_kept_ranges(invert_to_kept(removed_in, in_len))

\* `for ... in self.kept: if <test>: ...; break`: the index of the first span
\* that passes the test, 0 when none does; tests[k] is the test on span k
FirstIndex(tests) ==
    IF \E k \in DOMAIN tests : tests[k]
    THEN CHOOSE k \in DOMAIN tests : tests[k] /\ \A j \in 1..(k - 1) : ~tests[j]
    ELSE 0

\* ForwardWalk with a slip: an index in a removed region ends the interval, as
\* in the backward walk, instead of skipping to the next kept span
RECURSIVE ForwardWalkStopAtRemoved(_, _, _, _)
ForwardWalkStopAtRemoved(kept, cur, e, res) ==
    IF cur > e THEN res
    ELSE LET hit == FirstIndex([k \in DOMAIN kept |->
                                   kept[k][1] <= cur /\ cur <= kept[k][2]])
         IN  IF hit # 0
             THEN LET si == kept[hit][1]
                      ei == kept[hit][2]
                      so == kept[hit][3]
                      chunk_end == Min(e, ei)
                  IN  ForwardWalkStopAtRemoved(kept, chunk_end + 1, e,
                          Append(res, <<so + (cur - si), so + (chunk_end - si)>>))
             ELSE res

\* the `while cur <= e` loop of project_intervals_input_to_output
RECURSIVE ForwardWalk(_, _, _, _)
ForwardWalk(kept, cur, e, res) ==
    IF cur > e THEN res
    ELSE LET hit == FirstIndex([k \in DOMAIN kept |->
                                   kept[k][1] <= cur /\ cur <= kept[k][2]])
         IN  IF hit # 0
             THEN LET si == kept[hit][1]
                      ei == kept[hit][2]
                      so == kept[hit][3]
                      chunk_end == Min(e, ei)
                  IN  ForwardWalk(kept, chunk_end + 1, e,
                                  Append(res, <<so + (cur - si), so + (chunk_end - si)>>))
             ELSE LET next_kept == FirstIndex([k \in DOMAIN kept |-> kept[k][1] > cur])
                  IN  IF next_kept = 0 THEN res
                      ELSE ForwardWalk(kept, kept[next_kept][1], e, res)

RECURSIVE ForwardLoop(_, _, _)
ForwardLoop(kept, rest, res) ==
    IF rest = <<>> THEN res
    ELSE ForwardLoop(kept, Tail(rest),
                     ForwardWalk(kept, Head(rest)[1], Head(rest)[2], res))

project_intervals_input_to_output(kept, intervals_in) ==
    IF intervals_in = <<>> THEN <<>>
    ELSE normalize_intervals(ForwardLoop(kept, intervals_in, <<>>), None)

\* BackwardWalk with a slip: the chunk starts at the span's input start, the
\* offset `off` of cur within the span forgotten
RECURSIVE BackwardWalkNoOffset(_, _, _, _)
BackwardWalkNoOffset(kept, cur, e, res) ==
    IF cur > e THEN res
    ELSE LET hit == FirstIndex([k \in DOMAIN kept |->
                                   kept[k][3] <= cur /\ cur <= kept[k][4]])
         IN  IF hit # 0
             THEN LET si == kept[hit][1]
                      so == kept[hit][3]
                      eo == kept[hit][4]
                      chunk_end == Min(e, eo)
                  IN  BackwardWalkNoOffset(kept, chunk_end + 1, e,
                          Append(res, <<si, si + (chunk_end - so)>>))
             ELSE res

\* the `while cur <= e` loop of project_intervals_output_to_input: an index in
\* no kept span ends the interval (cur = e + 1)
RECURSIVE BackwardWalk(_, _, _, _)
BackwardWalk(kept, cur, e, res) ==
    IF cur > e THEN res
    ELSE LET hit == FirstIndex([k \in DOMAIN kept |->
                                   kept[k][3] <= cur /\ cur <= kept[k][4]])
         IN  IF hit # 0
             THEN LET si == kept[hit][1]
                      so == kept[hit][3]
                      eo == kept[hit][4]
                      chunk_end == Min(e, eo)
                  IN  BackwardWalk(kept, chunk_end + 1, e,
                                   Append(res, <<si + (cur - so), si + (chunk_end - so)>>))
             ELSE res

RECURSIVE BackwardLoop(_, _, _)
BackwardLoop(kept, rest, res) ==
    IF rest = <<>> THEN res
    ELSE BackwardLoop(kept, Tail(rest),
                      BackwardWalk(kept, Head(rest)[1], Head(rest)[2], res))

project_intervals_output_to_input(kept, intervals_out) ==
    IF intervals_out = <<>> THEN <<>>
    ELSE normalize_intervals(BackwardLoop(kept, intervals_out, <<>>), None)

\* compose: `for (cs, ce) in to_c` with the running offset `off`
RECURSIVE ComposeChunks(_, _, _, _)
ComposeChunks(to_c, si, off, acc) ==
    IF to_c = <<>> THEN acc
    ELSE LET cs == Head(to_c)[1]
             ce == Head(to_c)[2]
             L == ce - cs + 1
             in_s == si + off
             in_e == in_s + L - 1
         IN  ComposeChunks(Tail(to_c), si, off + L, Append(acc, <<in_s, in_e, cs, ce>>))

\* compose: `for (si, ei, so, eo) in self.kept` (the unused `mapped` is pure)
RECURSIVE ComposeSpans(_, _, _)
ComposeSpans(rest, other, acc) ==
    IF rest = <<>> THEN acc
    ELSE LET si == Head(rest)[1]
             so == Head(rest)[3]
             eo == Head(rest)[4]
             to_c == project_intervals_input_to_output(other, << <<so, eo>> >>)
         IN  ComposeSpans(Tail(rest), other, ComposeChunks(to_c, si, 0, acc))

\* composed_kept.sort(key=lambda t: (t[0], t[2])), stable
RECURSIVE InsertSpan(_, _)
InsertSpan(x, sorted) ==
    IF sorted = <<>> THEN <<x>>
    ELSE LET h == Head(sorted)
         IN  IF h[1] < x[1] \/ (h[1] = x[1] /\ h[3] <= x[3])
             THEN <<h>> \o InsertSpan(x, Tail(sorted))
             ELSE <<x>> \o sorted

RECURSIVE SortSpans(_)
SortSpans(xs) ==
    IF xs = <<>> THEN <<>>
    ELSE InsertSpan(xs[Len(xs)], SortSpans(SubSeq(xs, 1, Len(xs) - 1)))

\* compose: merge a span into the previous one when contiguous in both spaces
RECURSIVE MergeSpans(_, _)
MergeSpans(rest, merged) ==
    IF rest = <<>> THEN merged
    ELSE LET seg == Head(rest)
         IN  IF merged = <<>> THEN MergeSpans(Tail(rest), <<seg>>)
             ELSE LET p == merged[Len(merged)]
                  IN  IF p[2] + 1 = seg[1] /\ p[4] + 1 = seg[3]
                      THEN MergeSpans(Tail(rest),
                                      [merged EXCEPT ![Len(merged)] =
                                          <<p[1], seg[2], p[3], seg[4]>>])
                      ELSE MergeSpans(Tail(rest), Append(merged, seg))

compose(self, other) == MergeSpans(SortSpans(ComposeSpans(self, other, <<>>)), <<>>)

(***************************************************************************)
(* State.                                                                  *)
(***************************************************************************)
VARIABLES
    \* a call of an interval function: its arguments and what it returned
    intervals, length, call,
    \* IndexMap objects built by from_removed_ranges, the maps compose returned
    \* for them, and a projection call on one of them
    maps, c12, cLeft, cRight, query,
    \* one ECGDenoisingPipeline.run: position, configuration, arguments, locals
    pc, x_orig, gaps_indices, x_start, x_no_outl, x_no_rdrop, x_final,
    map_gaps, map_outliers, map_rdrop, map_motions,
    outliers_idx, rdrop_idx, motion_idx, projected_to_orig, projected_to_start,
    \* one call of filter_ecg and one call of detect_outliers: position,
    \* arguments, locals and what the call returned
    flt, det

varsIv == <<intervals, length, call>>
varsMap == <<maps, c12, cLeft, cRight, query>>
varsRun == <<pc, x_orig, gaps_indices, x_start, x_no_outl, x_no_rdrop, x_final,
             map_gaps, map_outliers, map_rdrop, map_motions,
             outliers_idx, rdrop_idx, motion_idx, projected_to_orig, projected_to_start>>
varsSteps == <<flt, det>>
vars == <<varsIv, varsMap, varsRun, varsSteps>>

\* sequences over S of length at most n
SeqUpTo(S, n) == UNION { [1..k -> S] : k \in 0..n }

\* the interval lists callers pass to the maps and to run: at most MaxIv
\* intervals with lo <= start <= end <= hi, in start order
OrderedIntervals(lo, hi) == { p \in (lo..hi) \X (lo..hi) : p[1] <= p[2] }
IntervalLists(lo, hi) ==
    { g \in SeqUpTo(OrderedIntervals(lo, hi), MaxIv) :
        \A k \in 1..(Len(g) - 1) : g[k][1] <= g[k + 1][1] }

\* a call that has not been made
NoCall == [fn |-> "none"]
NoMapCall == [called |-> FALSE, status |-> "none", kept |-> <<>>]
NoQuery == [fn |-> "none"]
NoProjection == [gaps |-> <<>>, outliers |-> <<>>, rdropouts |-> <<>>, motions |-> <<>>]

IdleIv == intervals = <<>> /\ length = 0 /\ call = NoCall
IdleMap == maps = <<>> /\ c12 = NoMapCall /\ cLeft = NoMapCall /\ cRight = NoMapCall
           /\ query = NoQuery
NoFilter == [pc |-> "idle"]
NoDetect == [pc |-> "idle"]
IdleSteps == flt = NoFilter /\ det = NoDetect
IdleRun ==
    /\ pc = "idle" /\ x_orig = <<>> /\ gaps_indices = <<>>
    /\ x_start = <<>> /\ x_no_outl = <<>> /\ x_no_rdrop = <<>> /\ x_final = <<>>
    /\ map_gaps = <<>> /\ map_outliers = <<>> /\ map_rdrop = <<>> /\ map_motions = <<>>
    /\ outliers_idx = <<>> /\ rdrop_idx = <<>> /\ motion_idx = <<>>
    /\ projected_to_orig = NoProjection /\ projected_to_start = NoProjection

(***************************************************************************)
(* Calls of the interval functions on caller-supplied lists: any integer   *)
(* pairs, reversed, negative, overlapping or beyond the bound.             *)
(***************************************************************************)
Coord == (-1)..MaxLen
RawIntervalLists == SeqUpTo(Coord \X Coord, MaxIv)

InitIv ==
    /\ intervals \in RawIntervalLists
    /\ length \in 0..MaxLen
    /\ call = NoCall
    /\ IdleMap /\ IdleRun /\ IdleSteps

NormalizeIntervals ==
    /\ call.fn = "none"
    /\ call' = [fn |-> "normalize_intervals", out |-> normalize_intervals(intervals, length)]
    /\ UNCHANGED <<intervals, length, varsMap, varsRun, varsSteps>>

InvertToKept ==
    /\ call.fn = "none"
    /\ call' = [fn |-> "invert_to_kept", out |-> invert_to_kept(intervals, length)]
    /\ UNCHANGED <<intervals, length, varsMap, varsRun, varsSteps>>

\* merge_intervals(intervals, merge_gap) for a merge_gap >= 0; the pairs are
\* taken as given, neither swapped nor clamped
MergeIntervals ==
    /\ call.fn = "none"
    /\ \E merge_gap \in 0..MaxGap :
         call' = [fn |-> "merge_intervals", merge_gap |-> merge_gap,
                  out |-> merge_intervals(intervals, merge_gap)]
    /\ UNCHANGED <<intervals, length, varsMap, varsRun, varsSteps>>

NextIv == NormalizeIntervals \/ InvertToKept \/ MergeIntervals

SpecIv == InitIv /\ [][NextIv]_vars

(***************************************************************************)
(* IndexMap objects: built by from_removed_ranges, composed, projected.    *)
(* A map object is recorded with the in_len it was built for and the set   *)
(* of indices of [0, in_len-1] its removed_in covered; the code keeps only *)
(* `kept`.  No call of this code raises: every operation on     *)
(* integers is total and there is no raise or assert in index_map.py, so   *)
(* the status of every call is "returned".                                 *)
(***************************************************************************)
\* total output length of a map: the sum of its kept spans' lengths
RECURSIVE OutLen(_)
OutLen(kept) ==
    IF kept = <<>> THEN 0
    ELSE (Head(kept)[4] - Head(kept)[3] + 1) + OutLen(Tail(kept))

\* the removed_in lists given for a map of in_len indices, and the lists a
\* projection is asked for: indices from one below the map to one beyond it
RemovedLists(in_len) == IntervalLists(-1, in_len)
QueryLists == IntervalLists(-1, MaxLen)

InitMap ==
    /\ maps = <<>> /\ c12 = NoMapCall /\ cLeft = NoMapCall /\ cRight = NoMapCall
    /\ query = NoQuery
    /\ IdleIv /\ IdleRun /\ IdleSteps

\* m = IndexMap.from_removed_ranges(removed_in, in_len); a third map is built
\* only to continue a chain whose lengths match, as the stage maps of run do
FromRemovedRanges ==
    /\ Len(maps) < 3
    /\ ~c12.called /\ query.fn = "none"
    /\ Len(maps) = 2 => OutLen(maps[1].kept) = maps[2].in_len
    /\ \E in_len \in 0..MaxLen :
           /\ Len(maps) = 2 => OutLen(maps[2].kept) = in_len
           /\ \E removed_in \in RemovedLists(in_len) :
                  maps' = Append(maps,
                      [kept |-> from_removed_ranges(removed_in, in_len),
                       in_len |-> in_len,
                       removed |-> CoveredRaw(removed_in) \cap 0..(in_len - 1)])
    /\ UNCHANGED <<c12, cLeft, cRight, query, varsIv, varsRun, varsSteps>>

\* maps[1].compose(maps[2]), whatever the two lengths are
Compose12 ==
    /\ Len(maps) = 2 /\ ~c12.called
    /\ c12' = [called |-> TRUE, status |-> "returned",
               kept |-> compose(maps[1].kept, maps[2].kept)]
    /\ UNCHANGED <<maps, cLeft, cRight, query, varsIv, varsRun, varsSteps>>

\* m1.compose(m2).compose(m3), as _compose_back_to_start does
ComposeLeft ==
    /\ Len(maps) = 3 /\ ~cLeft.called
    /\ cLeft' = [called |-> TRUE, status |-> "returned",
                 kept |-> compose(compose(maps[1].kept, maps[2].kept), maps[3].kept)]
    /\ UNCHANGED <<maps, c12, cRight, query, varsIv, varsRun, varsSteps>>

\* m1.compose(m2.compose(m3))
ComposeRight ==
    /\ Len(maps) = 3 /\ ~cRight.called
    /\ cRight' = [called |-> TRUE, status |-> "returned",
                  kept |-> compose(maps[1].kept, compose(maps[2].kept, maps[3].kept))]
    /\ UNCHANGED <<maps, c12, cLeft, query, varsIv, varsRun, varsSteps>>

\* the map a projection is called on: the composed map once there is one,
\* else the single built map
HasTarget == c12.called \/ Len(maps) = 1
Target == IF c12.called THEN c12.kept ELSE maps[1].kept
TargetQueries == IF c12.called THEN SeqUpTo(OrderedIntervals(-1, MaxLen), 1) ELSE QueryLists

ProjectForward ==
    /\ HasTarget /\ query.fn = "none"
    /\ \E q \in TargetQueries :
           query' = [fn |-> "project_forward", intervals |-> q, status |-> "returned",
                     out |-> project_intervals_input_to_output(Target, q)]
    /\ UNCHANGED <<maps, c12, cLeft, cRight, varsIv, varsRun, varsSteps>>

ProjectBackward ==
    /\ HasTarget /\ query.fn = "none"
    /\ \E q \in TargetQueries :
           query' = [fn |-> "project_backward", intervals |-> q, status |-> "returned",
                     out |-> project_intervals_output_to_input(Target, q)]
    /\ UNCHANGED <<maps, c12, cLeft, cRight, varsIv, varsRun, varsSteps>>

NextMap ==
    \/ FromRemovedRanges
    \/ Compose12
    \/ ComposeLeft
    \/ ComposeRight
    \/ ProjectForward
    \/ ProjectBackward

SpecMap == InitMap /\ [][NextMap]_vars

(***************************************************************************)
(* steps.py and pipeline.py: one run of the pipeline.  A signal is the     *)
(* sequence of the original indices of its samples (x_orig = 0, 1, ...,    *)
(* N-1): the stages only delete samples, and the sample values, which the  *)
(* filter changes and the detectors read, are not modelled.  What a        *)
(* detector returns is any list it can build: intervals clamped to the     *)
(* signal, in start order, and nothing for an empty signal.  The           *)
(* configuration enters through each stage's `enabled` flag (cfg.outliers, *)
(* cfg.rdropouts, cfg.motions), read once by its stage; cfg.memory_lean    *)
(* only deletes local names.                                               *)
(***************************************************************************)
\* x[s:e+1] for 0 <= s and 0 <= e + 1
SliceExclusive(x, s, e) == SubSeq(x, s + 1, Min(e, Len(x)))
Slice(x, s, e) == SubSeq(x, s + 1, Min(e + 1, Len(x)))

\* np.concatenate([x[s:e+1] for (s, e) in kept])
RECURSIVE ConcatParts(_, _)
ConcatParts(x, kept) ==
    IF kept = <<>> THEN <<>>
    ELSE Slice(x, Head(kept)[1], Head(kept)[2]) \o ConcatParts(x, Tail(kept))

\* returns <<y, idx_map>>
remove_intervals_and_build_map(x, removed) ==
    LET n == Len(x)
        norm == normalize_intervals(removed, n)
        kept == invert_to_kept(norm, n)
    IN  IF kept = <<>> THEN << <<>>, from_kept_ranges(<<>>) >>
        ELSE << ConcatParts(x, kept), from_kept_ranges(kept) >>

remove_gaps(x, gaps) ==
    IF gaps = <<>>
    THEN << x, from_kept_ranges(IF Len(x) > 0 THEN << <<0, Len(x) - 1>> >> ELSE <<>>) >>
    ELSE remove_intervals_and_build_map(x, gaps)

\* every return of filter_ecg is an array of len(x) samples in the same
\* positions; only their values change
filter_ecg(x) == x

\* what detect_outliers, detect_rdropouts or detect_motions can return for a
\* signal of n samples
DetectorOutcomes(n) ==
    IF n = 0 THEN { <<>> }
    ELSE IntervalLists(0, n - 1)

\* the gap lists a caller passes for a signal of n samples: intervals around
\* and beyond the signal, in start order
GapLists(n) == IntervalLists(-1, n)

\* a stage's interval list for signal x: [] when the stage is disabled, else
\* normalize_intervals(detect(x, ...), len(x))
DetectedIdx(x) ==
    { IF enabled THEN normalize_intervals(detected, Len(x)) ELSE <<>> :
        enabled \in BOOLEAN, detected \in DetectorOutcomes(Len(x)) }

InitRun ==
    /\ pc = "gaps"
    /\ \E n \in 0..MaxN :
           /\ x_orig = [k \in 1..n |-> k - 1]
           /\ gaps_indices \in GapLists(n)
    /\ x_start = <<>> /\ x_no_outl = <<>> /\ x_no_rdrop = <<>> /\ x_final = <<>>
    /\ map_gaps = <<>> /\ map_outliers = <<>> /\ map_rdrop = <<>> /\ map_motions = <<>>
    /\ outliers_idx = <<>> /\ rdrop_idx = <<>> /\ motion_idx = <<>>
    /\ projected_to_orig = NoProjection /\ projected_to_start = NoProjection
    /\ IdleIv /\ IdleMap /\ IdleSteps

\* 1) remove gaps, 2) filter (length preserved; cfg.filter.enabled chooses
\* between filter_ecg and a copy, the same samples either way)
StageGaps ==
    /\ pc = "gaps"
    /\ LET r == remove_gaps(x_orig, normalize_intervals(gaps_indices, Len(x_orig)))
       IN  /\ map_gaps' = r[2]
           /\ x_start' = filter_ecg(r[1])
    /\ pc' = "outliers"
    /\ UNCHANGED <<x_orig, gaps_indices, x_no_outl, x_no_rdrop, x_final,
                   map_outliers, map_rdrop, map_motions, outliers_idx, rdrop_idx,
                   motion_idx, projected_to_orig, projected_to_start, varsIv, varsMap, varsSteps>>

\* 3) outliers: detect on x_start, remove
StageOutliers ==
    /\ pc = "outliers"
    /\ \E idx \in DetectedIdx(x_start) :
         LET r == remove_intervals_and_build_map(x_start, idx)
         IN  /\ outliers_idx' = idx
             /\ x_no_outl' = r[1]
             /\ map_outliers' = r[2]
    /\ pc' = "rdropouts"
    /\ UNCHANGED <<x_orig, gaps_indices, x_start, x_no_rdrop, x_final,
                   map_gaps, map_rdrop, map_motions, rdrop_idx,
                   motion_idx, projected_to_orig, projected_to_start, varsIv, varsMap, varsSteps>>

\* 4) R-dropouts: detect on x_no_outl, remove
StageRdropouts ==
    /\ pc = "rdropouts"
    /\ \E idx \in DetectedIdx(x_no_outl) :
         LET r == remove_intervals_and_build_map(x_no_outl, idx)
         IN  /\ rdrop_idx' = idx
             /\ x_no_rdrop' = r[1]
             /\ map_rdrop' = r[2]
    /\ pc' = "motions"
    /\ UNCHANGED <<x_orig, gaps_indices, x_start, x_no_outl, x_final,
                   map_gaps, map_outliers, map_motions, outliers_idx,
                   motion_idx, projected_to_orig, projected_to_start, varsIv, varsMap, varsSteps>>

\* 5) motions: detect on x_no_rdrop, remove
StageMotions ==
    /\ pc = "motions"
    /\ \E idx \in DetectedIdx(x_no_rdrop) :
         LET r == remove_intervals_and_build_map(x_no_rdrop, idx)
         IN  /\ motion_idx' = idx
             /\ x_final' = r[1]
             /\ map_motions' = r[2]
    /\ pc' = "project"
    /\ UNCHANGED <<x_orig, gaps_indices, x_start, x_no_outl, x_no_rdrop,
                   map_gaps, map_outliers, map_rdrop, outliers_idx, rdrop_idx,
                   projected_to_orig, projected_to_start, varsIv, varsMap, varsSteps>>

\* the back-projections of run
outl_on_orig == project_intervals_output_to_input(map_gaps, outliers_idx)
rdrop_on_start == project_intervals_output_to_input(map_outliers, rdrop_idx)
rdrop_on_orig == project_intervals_output_to_input(map_gaps, rdrop_on_start)
mot_on_nout == project_intervals_output_to_input(map_rdrop, motion_idx)
\* mot_on_start with a slip: motion_idx taken as if already on no_outliers,
\* the step back through map_rdrop left out of the chain
mot_on_start_skipping_rdrop == project_intervals_output_to_input(map_outliers, motion_idx)
mot_on_start == project_intervals_output_to_input(map_outliers, mot_on_nout)
mot_on_orig == project_intervals_output_to_input(map_gaps, mot_on_start)

\* compose projections and return the PipelineResult
Project ==
    /\ pc = "project"
    /\ projected_to_orig' =
           [gaps |-> normalize_intervals(gaps_indices, Len(x_orig)),
            outliers |-> outl_on_orig,
            rdropouts |-> rdrop_on_orig,
            motions |-> mot_on_orig]
    /\ projected_to_start' =
           [gaps |-> <<>>,
            outliers |-> outliers_idx,
            rdropouts |-> rdrop_on_start,
            motions |-> mot_on_start]
    /\ pc' = "done"
    /\ UNCHANGED <<x_orig, gaps_indices, x_start, x_no_outl, x_no_rdrop, x_final,
                   map_gaps, map_outliers, map_rdrop, map_motions,
                   outliers_idx, rdrop_idx, motion_idx, varsIv, varsMap, varsSteps>>

Init == InitRun

Next ==
    \/ StageGaps
    \/ StageOutliers
    \/ StageRdropouts
    \/ StageMotions
    \/ Project

Spec == Init /\ [][Next]_vars

(***************************************************************************)
(* steps.py: one call of filter_ecg.  A sample is a pair                   *)
(* <<position, "raw" or "filtered">>: a backend that returns gives back an *)
(* array of the shape of x with new values, x.copy() gives back x.         *)
(* The backends (neurokit2, scipy.signal) are outside the repository: a    *)
(* call into one either returns, or fails at the import, or raises an      *)
(* Exception from the computation (so does the Wn arithmetic for fs = 0).  *)
(***************************************************************************)
BackendOutcomes == { "ok", "import_error", "error" }
Methods == { "butter", "neurokit", "other" }
FilterTypes == { "highpass", "bandpass" }
\* lowcut and highcut: None, zero, a positive frequency
LowCuts == { None, 0, 1 }
HighCuts == { None, 2 }

RawSignal(n) == [k \in 1..n |-> <<k - 1, "raw">>]

\* y of nk.signal_filter(x, ...) or filtfilt(b, a, x), as np.asarray(y)
Filtered(x) == [k \in DOMAIN x |-> <<x[k][1], "filtered">>]

InitFlt ==
    /\ \E n \in 0..MaxLen, method \in Methods, ftype \in FilterTypes,
          lowcut \in LowCuts, highcut \in HighCuts :
         flt = [pc |-> "start", x |-> RawSignal(n), method |-> method,
                ftype |-> ftype, lowcut |-> lowcut, highcut |-> highcut,
                nk |-> "not called", scipy |-> "not called", y |-> <<>>]
    /\ det = NoDetect
    /\ IdleIv /\ IdleMap /\ IdleRun

\* if not len(x): return x.copy(); if method == "neurokit": ...
FilterEntry ==
    /\ flt.pc = "start"
    /\ flt' = IF Len(flt.x) = 0
              THEN [flt EXCEPT !.pc = "returned", !.y = flt.x]
              ELSE IF flt.method = "neurokit"
                   THEN [flt EXCEPT !.pc = "neurokit"]
                   ELSE [flt EXCEPT !.pc = "scipy"]
    /\ UNCHANGED <<det, varsIv, varsMap, varsRun>>

\* try: import neurokit2; y = nk.signal_filter(...); return np.asarray(y)
\* except Exception: method = "butter"
FilterNeurokit ==
    /\ flt.pc = "neurokit"
    /\ \E outcome \in BackendOutcomes :
         flt' = IF outcome = "ok"
                THEN [flt EXCEPT !.pc = "returned", !.nk = outcome,
                                 !.y = Filtered(flt.x)]
                ELSE [flt EXCEPT !.pc = "scipy", !.nk = outcome,
                                 !.method = "butter"]
    /\ UNCHANGED <<det, varsIv, varsMap, varsRun>>

\* the cutoffs on which the SciPy block returns x.copy() without filtering
UnusableCutoffs(ftype, lowcut, highcut) ==
    IF ftype = "highpass"
    THEN lowcut = None \/ lowcut <= 0
    ELSE lowcut = None /\ highcut = None

ScipyBlockNoExcept(f, outcome) ==
    IF outcome = "import_error"
    THEN [f EXCEPT !.pc = "raised", !.scipy = outcome]
    ELSE IF UnusableCutoffs(f.ftype, f.lowcut, f.highcut)
    THEN [f EXCEPT !.pc = "returned", !.scipy = "unusable", !.y = f.x]
    ELSE IF outcome = "ok"
    THEN [f EXCEPT !.pc = "returned", !.scipy = outcome, !.y = Filtered(f.x)]
    ELSE [f EXCEPT !.pc = "raised", !.scipy = outcome]

\* try: from scipy.signal import butter, filtfilt; ...; y = filtfilt(b, a, x);
\* return np.asarray(y)   except Exception: return x.copy()
ScipyBlock(f, outcome) ==
    IF outcome = "import_error"
    THEN [f EXCEPT !.pc = "returned", !.scipy = outcome, !.y = f.x]
    ELSE IF UnusableCutoffs(f.ftype, f.lowcut, f.highcut)
    THEN [f EXCEPT !.pc = "returned", !.scipy = "unusable", !.y = f.x]
    ELSE IF outcome = "ok"
    THEN [f EXCEPT !.pc = "returned", !.scipy = outcome, !.y = Filtered(f.x)]
    ELSE [f EXCEPT !.pc = "returned", !.scipy = outcome, !.y = f.x]

FilterScipy ==
    /\ flt.pc = "scipy"
    /\ \E outcome \in BackendOutcomes : flt' = ScipyBlock(flt, outcome)
    /\ UNCHANGED <<det, varsIv, varsMap, varsRun>>

NextFlt == FilterEntry \/ FilterNeurokit \/ FilterScipy

SpecFlt == InitFlt /\ [][NextFlt]_vars

(***************************************************************************)
(* steps.py: one call of detect_outliers.  The signal is its length n and  *)
(* hits, the ascending list np.where(z > z_thresh)[0] of flagged indices.  *)
(***************************************************************************)
detect_outliers(n, hits, min_len, merge_gap) ==
    IF n = 0 THEN <<>>
    ELSE IF hits = <<>> THEN <<>>
    ELSE LET half == Max(1, min_len \div 2)
             spans == [k \in DOMAIN hits |->
                          <<Max(0, hits[k] - half), Min(n - 1, hits[k] + half)>>]
         IN  merge_intervals(spans, merge_gap)

\* what np.where can return for n samples: indices of 0..n-1, ascending
HitLists(n) ==
    { h \in SeqUpTo(0..(n - 1), n) : \A k \in 1..(Len(h) - 1) : h[k] < h[k + 1] }

InitDet ==
    /\ \E n \in 0..MaxN, min_len \in 0..MaxMinLen, merge_gap \in 0..MaxGap :
         \E hits \in HitLists(n) :
            det = [pc |-> "start", n |-> n, hits |-> hits, min_len |-> min_len,
                   merge_gap |-> merge_gap, out |-> <<>>]
    /\ flt = NoFilter
    /\ IdleIv /\ IdleMap /\ IdleRun

DetectOutliers ==
    /\ det.pc = "start"
    /\ det' = [det EXCEPT !.pc = "returned",
                          !.out = detect_outliers(det.n, det.hits, det.min_len,
                                                  det.merge_gap)]
    /\ UNCHANGED <<flt, varsIv, varsMap, varsRun>>

NextDet == DetectOutliers

SpecDet == InitDet /\ [][NextDet]_vars

(***************************************************************************)
(* Properties of the interval functions (SpecIv).                          *)
(***************************************************************************)
\* sorted ascending, pairwise neither overlapping nor touching, start <= end
IsNormalized(ivs) ==
    /\ \A k \in DOMAIN ivs : ivs[k][1] <= ivs[k][2]
    /\ \A k \in 1..(Len(ivs) - 1) : ivs[k + 1][1] > ivs[k][2] + 1

\* C9: for every list of integer pairs and every bound L >= 0,
\* normalize_intervals(intervals, L) is sorted ascending, pairwise neither
\* overlapping nor touching, each interval within [0, L-1] with start <= end,
\* and covers exactly the inputs' indices that lie in [0, L-1].
C9_NormalizeWithinBound ==
    call.fn = "normalize_intervals" =>
        /\ IsNormalized(call.out)
        /\ \A k \in DOMAIN call.out : 0 <= call.out[k][1] /\ call.out[k][2] <= length - 1
        /\ Covered(call.out) = CoveredRaw(intervals) \cap 0..(length - 1)

\* C10: for every removed set R and every L >= 0, invert_to_kept(R, L) is
\* exactly the maximal runs of indices of [0, L-1] that R does not cover,
\* ascending, each with start <= end; so [(0, L-1)] for empty R and L > 0,
\* and [] for L = 0.
C10_InvertIsComplement ==
    call.fn = "invert_to_kept" =>
        /\ IsNormalized(call.out)
        /\ Covered(call.out) = (0..(length - 1)) \ CoveredRaw(intervals)
        /\ (intervals = <<>> /\ length > 0) => call.out = << <<0, length - 1>> >>
        /\ length = 0 => call.out = <<>>

(***************************************************************************)
(* Properties of IndexMap (SpecMap).                                       *)
(***************************************************************************)
KeptInputs(kept) == UNION { sp[1]..sp[2] : sp \in { kept[k] : k \in DOMAIN kept } }

\* the output position of input index i, which lies in a kept span
ImageOf(kept, i) ==
    LET sp == CHOOSE sp \in { kept[k] : k \in DOMAIN kept } : sp[1] <= i /\ i <= sp[2]
    IN  sp[3] + (i - sp[1])

\* the Index Map invariants of a kept list
ValidMap(kept) ==
    /\ \A k \in DOMAIN kept :
           /\ kept[k][1] <= kept[k][2]
           /\ kept[k][2] - kept[k][1] = kept[k][4] - kept[k][3]
    /\ \A k \in 1..(Len(kept) - 1) : kept[k][2] < kept[k + 1][1]
    /\ kept # <<>> => kept[1][3] = 0
    /\ \A k \in 1..(Len(kept) - 1) : kept[k + 1][3] = kept[k][4] + 1

\* the lengths of the first two maps match: m2 takes what m1 puts out
Matching12 == Len(maps) >= 2 /\ maps[2].in_len = OutLen(maps[1].kept)

\* C2: for m1: A->B and m2: B->C with matching lengths and every index i of A
\* in a kept span of m1 whose image lies in a kept span of m2,
\* m1.compose(m2).project_forward([(i,i)]) equals
\* m2.project_forward(m1.project_forward([(i,i)])).
C2_ComposeAgreesWithChain ==
    (c12.called /\ Matching12) =>
        \A i \in KeptInputs(maps[1].kept) :
            ImageOf(maps[1].kept, i) \in KeptInputs(maps[2].kept) =>
                project_intervals_input_to_output(c12.kept, << <<i, i>> >>)
                  = project_intervals_input_to_output(maps[2].kept,
                        project_intervals_input_to_output(maps[1].kept, << <<i, i>> >>))

\* C3: for a chain m1, m2, m3 with matching lengths, m1.compose(m2).compose(m3)
\* has exactly the kept spans of m1.compose(m2.compose(m3)).
C3_ComposeAssociative ==
    (cLeft.called /\ cRight.called) => cLeft.kept = cRight.kept

\* every map object there is: built or returned by compose
AllMaps ==
    { maps[k].kept : k \in DOMAIN maps }
      \cup { c.kept : c \in { c \in {c12, cLeft, cRight} : c.called } }

\* C4: for any Index Map (built or composed) and any index i inside one of its
\* kept spans, project_forward([(i,i)]) followed by project_backward on the
\* result returns [(i,i)].
C4_RoundTrip ==
    \A kept \in AllMaps : \A i \in KeptInputs(kept) :
        project_intervals_output_to_input(kept,
            project_intervals_input_to_output(kept, << <<i, i>> >>)) = << <<i, i>> >>

\* C4 witness: a composed map that moves an index of one of its kept spans
C4_Witness ==
    /\ c12.called /\ Matching12
    /\ \E i \in KeptInputs(c12.kept) :
           project_intervals_input_to_output(c12.kept, << <<i, i>> >>) # << <<i, i>> >>
    /\ Len(c12.kept) >= 2

\* C5: project_forward returns exactly the normalized set of the output
\* positions of the queried indices that lie in kept spans: nothing for an
\* interval inside a removed region (also after the last kept span), only the
\* surviving portions of an interval that partially overlaps removed regions.
C5_ForwardExact ==
    query.fn = "project_forward" =>
        /\ query.status = "returned"
        /\ IsNormalized(query.out)
        /\ Covered(query.out) =
               { ImageOf(Target, i) : i \in Covered(query.intervals) \cap KeptInputs(Target) }

\* C5 witness: a forward projection of one interval that lies wholly in the
\* removed region after the last kept span and one that is partly removed
C5_Witness ==
    /\ query.fn = "project_forward" /\ ~c12.called
    /\ \E k \in DOMAIN query.intervals :
           /\ Covered(<<query.intervals[k]>>) \cap KeptInputs(Target) = {}
           /\ \A i \in KeptInputs(Target) : i < query.intervals[k][1]
           /\ query.intervals[k][2] < maps[1].in_len
    /\ \E k \in DOMAIN query.intervals :
           /\ Covered(<<query.intervals[k]>>) \cap KeptInputs(Target) # {}
           /\ Covered(<<query.intervals[k]>>) \cap maps[1].removed # {}
    /\ query.out # <<>>

\* C6: project_backward called with an interval that touches an index outside
\* [0, Lout-1] fails instead of returning a result.
C6_BackwardOutOfRangeFails ==
    ( /\ query.fn = "project_backward"
      /\ ~(Covered(query.intervals) \subseteq 0..(OutLen(Target) - 1)) )
        => query.status = "raised"

\* C7: self.compose(other) with other's input length different from self's
\* output length fails and never returns a composed map.
C7_ComposeMismatchFails ==
    (c12.called /\ ~Matching12) => c12.status = "raised"

\* C8: every map from_removed_ranges(R, L) builds, L >= 0, and every map
\* composed from such maps with matching lengths satisfies the Index Map
\* invariants (start <= end and equal input and output length per span, sorted
\* in both spaces, disjoint in input space, output ranges partitioning
\* [0, Lout-1]); a built map keeps exactly the indices of [0, L-1] that R does
\* not cover, so Lout = L minus the number of covered indices.
C8_IndexMapInvariants ==
    /\ \A k \in DOMAIN maps :
           /\ ValidMap(maps[k].kept)
           /\ KeptInputs(maps[k].kept) = (0..(maps[k].in_len - 1)) \ maps[k].removed
           /\ OutLen(maps[k].kept) = maps[k].in_len - Cardinality(maps[k].removed)
           /\ maps[k].removed = {} /\ maps[k].in_len > 0 =>
                  maps[k].kept = << <<0, maps[k].in_len - 1, 0, maps[k].in_len - 1>> >>
           /\ maps[k].removed = 0..(maps[k].in_len - 1) => maps[k].kept = <<>>
    /\ (c12.called /\ Matching12) => ValidMap(c12.kept)
    /\ cLeft.called => ValidMap(cLeft.kept)
    /\ cRight.called => ValidMap(cRight.kept)

(***************************************************************************)
(* Properties of run (Spec).                                               *)
(***************************************************************************)
\* the samples (original indices) a stage deleted
Deleted(before, after) ==
    { before[k] : k \in DOMAIN before } \ { after[k] : k \in DOMAIN after }

\* the 0-based position of a sample in a signal that holds it
IndexIn(x, sample) == (CHOOSE k \in DOMAIN x : x[k] = sample) - 1

\* every pair of the list has start <= end
AllOrdered(ivs) == \A k \in DOMAIN ivs : ivs[k][1] <= ivs[k][2]

\* C11: for every merge_gap >= 0, merge_intervals(intervals, merge_gap) is
\* sorted by start, its consecutive intervals satisfy
\* next.start > prev.end + merge_gap + 1, and every input interval lies inside
\* one output interval; nothing is merged beyond that: for inputs with
\* start <= end each output runs from an input's start to an input's end and
\* holds no run of more than merge_gap indices that no input covers.  With
\* merge_gap = 0, [(0,5),(6,10)] becomes [(0,10)] and [(0,5),(8,10)] stays;
\* merge_gap >= 2 merges the latter.
C11_MergeExactlyWithinGap ==
    call.fn = "merge_intervals" =>
        LET out == call.out
            gap == call.merge_gap
        IN  /\ \A k \in 1..(Len(out) - 1) :
                 /\ out[k][1] <= out[k + 1][1]
                 /\ out[k + 1][1] > out[k][2] + gap + 1
            /\ \A k \in DOMAIN intervals : \E j \in DOMAIN out :
                 out[j][1] <= intervals[k][1] /\ intervals[k][2] <= out[j][2]
            /\ (intervals = <<>>) = (out = <<>>)
            /\ AllOrdered(intervals) =>
                 \A j \in DOMAIN out :
                    /\ \E k \in DOMAIN intervals : intervals[k][1] = out[j][1]
                    /\ \E k \in DOMAIN intervals : intervals[k][2] = out[j][2]
                    /\ \A i \in out[j][1]..out[j][2] :
                         (i..(i + gap)) \cap Covered(intervals) # {}
            /\ merge_intervals(<<<<0, 5>>, <<6, 10>>>>, 0) = <<<<0, 10>>>>
            /\ merge_intervals(<<<<0, 5>>, <<8, 10>>>>, 0) = <<<<0, 5>>, <<8, 10>>>>
            /\ merge_intervals(<<<<0, 5>>, <<8, 10>>>>, gap + 2) = <<<<0, 10>>>>

\* C11 witness: two intervals given out of order, exactly merge_gap > 0
\* uncovered indices apart, merged into one
C11_Witness ==
    /\ call.fn = "merge_intervals"
    /\ call.merge_gap > 0
    /\ Len(intervals) = 2 /\ AllOrdered(intervals)
    /\ intervals[1][1] = intervals[2][2] + call.merge_gap + 1
    /\ Len(call.out) = 1

StartIndices(samples) == { IndexIn(x_start, sm) : sm \in samples }

\* C1: after run, for each of outliers, rdropouts, motions, projected_to_start
\* covers exactly the start-frame indices of the samples that stage deleted
\* and projected_to_orig exactly their original indices;
\* projected_to_orig["gaps"] is the normalized gap set, covering the samples
\* the gap stage deleted, and projected_to_start["gaps"] is empty.
C1_BackProjectionExact ==
    pc = "done" =>
        /\ Covered(projected_to_start.outliers) = StartIndices(Deleted(x_start, x_no_outl))
        /\ Covered(projected_to_orig.outliers) = Deleted(x_start, x_no_outl)
        /\ Covered(projected_to_start.rdropouts) = StartIndices(Deleted(x_no_outl, x_no_rdrop))
        /\ Covered(projected_to_orig.rdropouts) = Deleted(x_no_outl, x_no_rdrop)
        /\ Covered(projected_to_start.motions) = StartIndices(Deleted(x_no_rdrop, x_final))
        /\ Covered(projected_to_orig.motions) = Deleted(x_no_rdrop, x_final)
        /\ projected_to_orig.gaps = normalize_intervals(gaps_indices, Len(x_orig))
        /\ Covered(projected_to_orig.gaps) = Deleted(x_orig, x_start)
        /\ projected_to_start.gaps = <<>>

\* C1 witness: a finished run in which every stage deleted a sample, each
\* behind an earlier stage's deletion, so that every back-projection shifts
C1_Witness ==
    /\ pc = "done"
    /\ projected_to_orig.gaps # <<>> /\ outliers_idx # <<>>
    /\ rdrop_idx # <<>> /\ motion_idx # <<>>
    /\ projected_to_orig.motions # projected_to_start.motions
    /\ projected_to_start.motions # motion_idx
    /\ projected_to_start.rdropouts # rdrop_idx

\* C12: run on a zero-length signal, with any gap list and every stage
\* enabled or disabled, ends with the three checkpoint signals of length zero,
\* the native and the projected interval lists of every category empty, and
\* each of map_gaps, map_outliers, map_rdropouts, map_motions with zero kept
\* spans.
C12_EmptySignalRun ==
    (pc = "done" /\ x_orig = <<>>) =>
        /\ x_start = <<>> /\ x_no_outl = <<>> /\ x_no_rdrop = <<>> /\ x_final = <<>>
        /\ outliers_idx = <<>> /\ rdrop_idx = <<>> /\ motion_idx = <<>>
        /\ projected_to_orig = NoProjection
        /\ projected_to_start = NoProjection
        /\ map_gaps = <<>> /\ map_outliers = <<>>
        /\ map_rdrop = <<>> /\ map_motions = <<>>

\* C13: filter_ecg never raises and what it returns has the length of x,
\* whatever the backends do: with method "neurokit" a failure of that backend,
\* at the import or in the computation, leads into the Butterworth block
\* with method = "butter"; and when that block cannot run (cutoffs it cannot
\* use, a failed import, any exception) the result is a copy of x.
C13_FilterNeverRaises ==
    /\ flt.pc \in { "idle", "start", "neurokit", "scipy", "returned" }
    /\ (flt.pc \in { "scipy", "returned" } /\ flt.nk \in { "import_error", "error" }) =>
           flt.method = "butter"
    /\ flt.pc = "returned" =>
        /\ Len(flt.y) = Len(flt.x)
        /\ flt.nk \in { "import_error", "error" } => flt.scipy # "not called"
        /\ flt.scipy \in { "unusable", "import_error", "error" } => flt.y = flt.x
        /\ flt.y # flt.x => "ok" \in { flt.nk, flt.scipy }

\* C13 witness: a non-empty signal, method "neurokit", the neurokit backend
\* failed, then the Butterworth block raised too, and x came back
C13_Witness ==
    /\ flt.pc = "returned"
    /\ Len(flt.x) > 0
    /\ flt.nk = "error" /\ flt.scipy = "error"
    /\ flt.y = flt.x

\* C14: for every min_len >= 0 and every signal length n, detect_outliers
\* returns the spans [max(0, i - min_len//2), min(n-1, i + min_len//2)] of the
\* flagged indices i, merged with merge_gap.
C14_SymmetricHalfExpansion ==
    det.pc = "returned" =>
        LET half == det.min_len \div 2
            spans == [k \in DOMAIN det.hits |->
                         <<Max(0, det.hits[k] - half),
                           Min(det.n - 1, det.hits[k] + half)>>]
        IN  det.out = merge_intervals(spans, det.merge_gap)

\* the kept spans of a stage map lie in the frame of in_len indices
SpansWithin(kept, in_len) ==
    \A k \in DOMAIN kept : 0 <= kept[k][1] /\ kept[k][2] <= in_len - 1

\* C15: after a run on a signal of N > 0 samples the four projected_to_orig
\* lists cover pairwise disjoint subsets of [0, N-1] and len(ecg_final) is N
\* minus the number of indices they cover; len(ecg_start) is N minus the
\* number of gap indices, and each stage map's output length is the length of
\* the signal the next stage map was built on.
C15_SampleConservation ==
    (pc = "done" /\ Len(x_orig) > 0) =>
        LET N == Len(x_orig)
            G == Covered(projected_to_orig.gaps)
            O == Covered(projected_to_orig.outliers)
            R == Covered(projected_to_orig.rdropouts)
            M == Covered(projected_to_orig.motions)
        IN  /\ G \cap O = {} /\ G \cap R = {} /\ G \cap M = {}
            /\ O \cap R = {} /\ O \cap M = {} /\ R \cap M = {}
            /\ (G \cup O \cup R \cup M) \subseteq 0..(N - 1)
            /\ Len(x_final) = N - Cardinality(G \cup O \cup R \cup M)
            /\ Len(x_start) = N - Cardinality(G)
            /\ Len(x_no_outl) = Len(x_start) - Cardinality(O)
            /\ Len(x_no_rdrop) = Len(x_no_outl) - Cardinality(R)
            /\ OutLen(map_gaps) = Len(x_start)
            /\ SpansWithin(map_gaps, N)
            /\ OutLen(map_outliers) = Len(x_no_outl)
            /\ SpansWithin(map_outliers, OutLen(map_gaps))
            /\ OutLen(map_rdrop) = Len(x_no_rdrop)
            /\ SpansWithin(map_rdrop, OutLen(map_outliers))
            /\ OutLen(map_motions) = Len(x_final)
            /\ SpansWithin(map_motions, OutLen(map_rdrop))

\* C15 witness: a finished run that lost samples to the gaps, to the outliers
\* and to the motions, each in a different frame, and kept some
C15_Witness ==
    /\ pc = "done"
    /\ projected_to_orig.gaps # <<>>
    /\ projected_to_orig.outliers # <<>>
    /\ projected_to_orig.motions # <<>>
    /\ projected_to_orig.outliers # outliers_idx
    /\ projected_to_orig.motions # motion_idx
    /\ x_final # <<>>

====
